---------------------------- MODULE Spec2Model ----------------------------
(***************************************************************************)
(* State-machine model of scripts/exgdas_global_marine_analysis_prep.py:   *)
(* the top-level script (lines 97-263) and gen_bkg_list (lines 47-91).     *)
(*                                                                         *)
(* Paths and file names are sequences of one-character strings, so that    *)
(* glob matching, sorting, basename and splitext work on characters as     *)
(* the Python library functions do.  A datetime is a number of minutes     *)
(* since the start of day 0; strftime turns it into <<day, H, M, S>>.      *)
(***************************************************************************)
EXTENDS Integers, Sequences, FiniteSets, TLC

(* ------------------------------ bounds -------------------------------- *)

\* at most this many files lie in the background directory
MaxFiles == 2
\* at most this many of the environment variables are unset
MaxUnset == 1
\* length of the variable list the bump-C loop body is applied to in SpecBump
MaxVars == 2

(* --------------------------- characters ------------------------------- *)

\* code points of the characters that occur in the modelled paths
Ord ==
  "." :> 46 @@ "/" :> 47 @@ "0" :> 48 @@ "3" :> 51 @@ "4" :> 52 @@
  "5" :> 53 @@ "6" :> 54 @@ "a" :> 97 @@ "b" :> 98 @@ "c" :> 99 @@
  "d" :> 100 @@ "f" :> 102 @@ "g" :> 103 @@ "n" :> 110 @@ "o" :> 111 @@
  "s" :> 115 @@ "t" :> 116 @@ "x" :> 120

\* Python's str < str: lexicographic on code points, a proper prefix is smaller
RECURSIVE StrLess(_, _)
StrLess(a, b) ==
  IF b = <<>> THEN FALSE
  ELSE IF a = <<>> THEN TRUE
  ELSE IF Ord[Head(a)] < Ord[Head(b)] THEN TRUE
  ELSE IF Ord[Head(a)] > Ord[Head(b)] THEN FALSE
  ELSE StrLess(Tail(a), Tail(b))

\* insertion of one path into a sorted list
RECURSIVE Insert(_, _)
Insert(x, s) ==
  IF s = <<>> THEN <<x>>
  ELSE IF StrLess(Head(s), x) THEN <<Head(s)>> \o Insert(x, Tail(s))
  ELSE <<x>> \o s

RECURSIVE SortAsc(_)
SortAsc(s) == IF s = <<>> THEN <<>> ELSE Insert(Head(s), SortAsc(Tail(s)))

\* files.sort() on a list of strings
SortFiles(s) == SortAsc(s)

\* position of the last "/" in p, 0 when there is none
LastSlash(p) ==
  LET idx == {i \in 1..Len(p) : p[i] = "/"}
  IN IF idx = {} THEN 0 ELSE CHOOSE i \in idx : \A j \in idx : j <= i

\* os.path.basename
Basename(p) == SubSeq(p, LastSlash(p) + 1, Len(p))

\* os.path.splitext(p)[0]: cut at the last dot that follows the last "/",
\* unless only dots lie between that "/" and the dot (a leading-dot name)
SplitextRoot(p) ==
  LET sep  == LastSlash(p)
      dots == {i \in (sep + 1)..Len(p) : p[i] = "."}
      dot  == IF dots = {} THEN 0
              ELSE CHOOSE i \in dots : \A j \in dots : j <= i
  IN IF dot > sep /\ \E k \in (sep + 1)..(dot - 1) : p[k] # "."
     THEN SubSeq(p, 1, dot - 1)
     ELSE p

DotNc == <<".", "n", "c">>

\* faulty variant: keeps the directory part: splitext without basename
OcnFilenameKeepDir(bkg) == SplitextRoot(bkg) \o DotNc

\* line 82: os.path.splitext(os.path.basename(bkg))[0]+'.nc'
OcnFilename(bkg) == SplitextRoot(Basename(bkg)) \o DotNc

(* ------------------------------ glob ---------------------------------- *)

PatGdas == <<"g", "d", "a", "s", ".", "t">>
PatOcnf == <<".", "o", "c", "n", "f", "0", "0">>
Digits49 == {"4", "5", "6", "7", "8", "9"}

\* fnmatch of a directory entry against '*gdas.t*.ocnf00[4-9]*' (line 47:
\* '*' + file_type + '*'); a '*' never matches a name's leading dot
GlobMatch(name) ==
  /\ name # <<>>
  /\ name[1] # "."
  /\ \E i \in 1..(Len(name) - 5) :
       /\ SubSeq(name, i, i + 5) = PatGdas
       /\ \E j \in (i + 6)..(Len(name) - 7) :
            /\ SubSeq(name, j, j + 6) = PatOcnf
            /\ name[j + 7] \in Digits49

\* the directory entries the model draws from
NameNc4  == PatGdas \o <<"0">> \o PatOcnf \o <<"4">> \o DotNc
NameGb5  == PatGdas \o <<"0">> \o PatOcnf \o <<"5", ".", "g", "b">>
NameRaw4 == PatGdas \o <<"0">> \o PatOcnf \o <<"4">>
NameX4   == <<"x">> \o NameNc4
NameNc3  == PatGdas \o <<"0">> \o PatOcnf \o <<"3">> \o DotNc
DirEntries == {NameNc4, NameGb5, NameRaw4, NameX4, NameNc3}

\* value of COMIN_GES when it is set: a directory whose name holds a dot
BkgDir == <<"/", "c", ".", "d">>

\* the paths glob.glob(bkg_path+'/*'+file_type+'*') returns, as a set
GlobSet(bkg_path, entries) ==
  {bkg_path \o <<"/">> \o n : n \in {e \in entries : GlobMatch(e)}}

\* every ordering of a finite set as a sequence (glob returns any order)
Orderings(S) ==
  {s \in [1..Cardinality(S) -> S] : \A i, j \in DOMAIN s : i # j => s[i] # s[j]}

(* ------------------------------ time ---------------------------------- *)

MinPerHour == 60
MinPerDay == 1440

\* datetime.strptime(CDATE, '%Y%m%d%H'); CDATE is <<day, hour>>
Strptime(cdate) == cdate[1] * MinPerDay + cdate[2] * MinPerHour

\* timedelta(hours=int(assim_freq)/2), in minutes
HalfAssimFreq(freq) == (freq * MinPerHour) \div 2

\* strftime('%Y-%m-%dT%H:%M:%SZ'): <<date, hour, minute, second>>
Strftime(t) == <<t \div MinPerDay, (t % MinPerDay) \div MinPerHour, t % MinPerHour, 0>>

\* faulty variant: starts the manifest at the window start itself
FirstBkgDateNoOffset(wb) == wb

\* line 77: bkg_date = window_begin + timedelta(hours=1)
FirstBkgDate(wb) == wb + MinPerHour

\* lines 78-88: the list of records built over the sorted files
RECURSIVE BkgList(_, _, _)
BkgList(fs, bkg_date, bkg_path) ==
  IF fs = <<>> THEN <<>>
  ELSE <<[date |-> Strftime(bkg_date),
          basename |-> bkg_path \o <<"/">>,
          ocn_filename |-> OcnFilename(Head(fs)),
          read_from_file |-> 1]>>
       \o BkgList(Tail(fs), bkg_date + MinPerHour, bkg_path)


(* ------------------------ program constants --------------------------- *)

\* the environment variables the script reads
EnvNames ==
  {"COMOUT", "COMIN_OBS", "SOCA_INPUT_FIX_DIR", "COMIN_GES", "CDATE", "PDY",
   "cyc", "assim_freq", "SOCA_VARS", "SOCA_NINNER", "DOMAIN_STACK_SIZE"}

\* faulty variant: follows the order of the overview: repair and manifest first
ProgramRepairFirst ==
  <<"mkdir_anl", "mkdir_diags", "mkdir_data", "r2d2_setup", "get_env_config",
    "parse_config", "stage_obs", "stage_background", "window", "gen_bkg_list",
    "stage_soca_fix", "soca_vars", "symlink_gridgen", "genYAML_berr",
    "symlink_corscales", "set_vars", "bump", "genYAML_var", "symlink_rst",
    "copy_nml", "nml_read", "nml_remove", "nml_write">>

\* the statements of the script in program order, one label per call
Program ==
  <<"mkdir_anl", "mkdir_diags", "mkdir_data", "r2d2_setup", "get_env_config",
    "parse_config", "stage_obs", "stage_background", "stage_soca_fix",
    "soca_vars", "symlink_gridgen", "genYAML_berr", "symlink_corscales",
    "set_vars", "bump", "window", "gen_bkg_list", "genYAML_var",
    "symlink_rst", "copy_nml", "nml_read", "nml_remove", "nml_write">>

PosOf(label) == CHOOSE i \in DOMAIN Program : Program[i] = label

\* line 55 and line 56
DiagVars == <<"Temp", "Salt", "ave_ssh", "h", "MLD">>
DiagAtts == <<"_FillValue", "missing_value">>

\* line 186 and lines 187-188
vars3d == <<"tocn", "socn", "uocn", "vocn", "chl", "biop">>
vars2d == <<"ssh", "cicen", "hicen", "hsnon", "swh", "sw", "lw", "lw_rad",
            "lhf", "shf", "us">>

Range(s) == {s[i] : i \in DOMAIN s}


\* the statement itself raises (TypeError / AttributeError on None) when one
\* of these variables is unset; in the faulty variant SOCA_VARS is read with a default
CodeRequiresDefaulted(label) ==
  CASE label \in {"mkdir_anl", "mkdir_diags", "mkdir_data"} -> {"COMOUT"}
    [] label = "window" -> {"assim_freq", "CDATE"}
    [] label = "gen_bkg_list" -> {"COMIN_GES"}
    [] label = "genYAML_var" -> {"PDY", "cyc"}
    [] label = "symlink_rst" -> {"COMIN_GES", "COMOUT"}
    [] label = "nml_read" -> {"DOMAIN_STACK_SIZE"}
    [] OTHER -> {}

CodeRequires(label) ==
  CASE label \in {"mkdir_anl", "mkdir_diags", "mkdir_data"} -> {"COMOUT"}
    [] label = "soca_vars" -> {"SOCA_VARS"}
    [] label = "window" -> {"assim_freq", "CDATE"}
    [] label = "gen_bkg_list" -> {"COMIN_GES"}
    [] label = "genYAML_var" -> {"PDY", "cyc"}
    [] label = "symlink_rst" -> {"COMIN_GES", "COMOUT"}
    [] label = "nml_read" -> {"DOMAIN_STACK_SIZE"}
    [] OTHER -> {}

\* the ufsda library call is handed the unset value and fails on it
\* (the library is not part of the script; spec.md sections 4.2 and 6)
LibRequires(label) ==
  CASE label = "r2d2_setup" -> {"COMIN_OBS"}
    [] label = "stage_soca_fix" -> {"SOCA_INPUT_FIX_DIR"}
    [] label = "genYAML_var" -> {"SOCA_NINNER"}
    [] OTHER -> {}

\* str.split(","), the string given as its comma-free pieces and "," tokens
RECURSIVE SplitFrom(_, _)
SplitFrom(toks, cur) ==
  IF toks = <<>> THEN <<cur>>
  ELSE IF Head(toks) = "," THEN <<cur>> \o SplitFrom(Tail(toks), "")
  ELSE SplitFrom(Tail(toks), cur \o Head(toks))

SplitComma(toks) == SplitFrom(toks, "")

\* faulty variant: iterates over the DA variables of the environment
BumpVarsFromEnv(sv) == sv

\* line 191: vars = ['ssh', 'tocn', 'socn'], whatever soca_vars holds
BumpVars(sv) == <<"ssh", "tocn", "socn">>

\* faulty variant: classifies by the 3-D list
DimBy3d(v) == IF v \in Range(vars3d) THEN "3d" ELSE "2d"

\* lines 194-197
Dim(v) == IF v \in Range(vars2d) THEN "2d" ELSE "3d"

\* line 198 (file name under anl_dir) and line 204
BumpCYaml(v) == "soca_bump" \o Dim(v) \o "_C_" \o v \o ".yaml"
BumpDir(v) == "bump" \o Dim(v) \o "_" \o v

\* line 60 and line 61: the ncatted command lines
ChCmd(att, v, bkg) ==
  [tool |-> "ncatted -h -a", att |-> att, var |-> v, mode |-> "o",
   type |-> "d", val |-> "9999.0", file |-> bkg]
DCmd(att, v, bkg) ==
  [tool |-> "ncatted -h -a", att |-> att, var |-> v, mode |-> "d",
   type |-> "d", val |-> "1.0", file |-> bkg]

\* faulty variant: fills the first pass with the delete commands
ChJobsDelete(att, v, fs) == [i \in DOMAIN fs |-> DCmd(att, v, fs[i])]

\* lines 57-61: the two job lists of one (variable, attribute) pair
ChJobs(att, v, fs) == [i \in DOMAIN fs |-> ChCmd(att, v, fs[i])]
DJobs(att, v, fs) == [i \in DOMAIN fs |-> DCmd(att, v, fs[i])]

ExitCodes == {0, 1}

\* faulty variant: is subprocess.run(..., check=True)
RunRaisesChecked(rc) == rc # 0

\* line 66: subprocess.run without check never raises on the exit status
RunRaises(rc) == FALSE

\* counting in a function whose domain grows
Count(f, c) == IF c \in DOMAIN f THEN f[c] ELSE 0
Incr(f, c) == IF c \in DOMAIN f THEN [f EXCEPT ![c] = @ + 1] ELSE f @@ (c :> 1)

\* faulty variant: drops the os.system call
SystemStartsNothing(st, c) == st

\* line 65 / line 71: os.system(c) starts the command
SystemStarts(st, c) == Incr(st, c)

\* line 66 / line 72: subprocess.run(c, shell=True) starts it again
RunStarts(st, c) == Incr(st, c)


(* ------------------------------ state --------------------------------- *)

VARIABLES
  unset,         \* the environment variables that are not set
  envval,        \* the values of CDATE, assim_freq and SOCA_VARS when set
  dirEntries,    \* the names in the background directory COMIN_GES
  pc,            \* index in Program of the statement to execute next
  status,        \* "running", "failed" (uncaught exception) or "done"
  failedAt,      \* the statement that raised
  trace,         \* the statements completed, in order: their effects on disk
  soca_vars,     \* line 154
  vars,          \* line 191
  bi,            \* bump-C loop: index into vars
  bsub,          \* bump-C loop: "mkdir" or "genYAML"
  bumpDirs,      \* directories made by line 205
  bumpOut,       \* documents written by line 208
  window_begin,  \* line 218
  gpc,           \* position inside gen_bkg_list
  files,         \* line 51-52
  vi, ai,        \* indices into DiagVars and DiagAtts
  ch_jobs, d_jobs,
  phase,         \* "ch" (lines 63-67) or "d" (lines 69-73)
  ci,            \* index into the job list of the phase
  result,        \* return code held by the last subprocess.run result
  anyNonZero,    \* some command so far exited non-zero
  logged,        \* command -> number of logging.info calls for it
  started,       \* command -> number of times it was started
  manifest       \* the documents written to bkg_list.yaml

inputs == <<unset, envval, dirEntries>>
ctl == <<pc, status, failedAt, trace>>
bumpv == <<vars, bi, bsub, bumpDirs, bumpOut>>
loopv == <<files, vi, ai, ch_jobs, d_jobs, phase, ci>>
procv == <<result, anyNonZero, logged, started>>
genv == <<gpc, loopv, procv, manifest>>
vars_all == <<inputs, ctl, soca_vars, bumpv, window_begin, genv>>

\* values the set variables take
CDates == {<<1, 1>>}
AssimFreqs == {6, 3}
SocaVarsValues == {<<>>, <<"sst", ",", "socn">>}

NoFunc == [c \in {} |-> 0]

Init ==
  /\ unset \in {U \in SUBSET EnvNames : Cardinality(U) <= MaxUnset}
  /\ envval \in [CDATE : CDates, assim_freq : AssimFreqs, SOCA_VARS : SocaVarsValues]
  /\ dirEntries \in {D \in SUBSET DirEntries : Cardinality(D) <= MaxFiles}
  /\ pc = 1 /\ status = "running" /\ failedAt = "" /\ trace = <<>>
  /\ soca_vars = <<>> /\ vars = <<>> /\ bi = 1 /\ bsub = "mkdir"
  /\ bumpDirs = <<>> /\ bumpOut = <<>>
  /\ window_begin = 0
  /\ gpc = "entry" /\ files = <<>> /\ vi = 1 /\ ai = 1
  /\ ch_jobs = <<>> /\ d_jobs = <<>> /\ phase = "ch" /\ ci = 1
  /\ result = 0 /\ anyNonZero = FALSE /\ logged = NoFunc /\ started = NoFunc
  /\ manifest = <<>>

(* --------------------------- control flow ----------------------------- *)

At(label) == status = "running" /\ pc \in DOMAIN Program /\ Program[pc] = label

Needed(label) == CodeRequires(label) \cup LibRequires(label)

\* the statement can raise: an external call may fail, a None always does
CanRaise(label, external) == external \/ Needed(label) \cap unset # {}
CanPass(label) == Needed(label) \cap unset = {}

\* faulty variant: undoes the completed steps when an exception ends the script
RaiseRollback(label) ==
  /\ status' = "failed"
  /\ failedAt' = label
  /\ trace' = <<>>
  /\ UNCHANGED pc

\* an exception nothing catches: the script stops where it is
Raise(label) ==
  /\ status' = "failed"
  /\ failedAt' = label
  /\ UNCHANGED <<pc, trace>>

\* the statement returns and the next one is up
Complete(label) ==
  /\ trace' = Append(trace, label)
  /\ pc' = pc + 1
  /\ status' = IF pc = Len(Program) THEN "done" ELSE "running"
  /\ UNCHANGED failedAt

\* a statement that only calls out: it raises or completes
Simple(label, external) ==
  /\ \/ CanRaise(label, external) /\ Raise(label)
     \/ CanPass(label) /\ Complete(label)
  /\ UNCHANGED <<inputs, soca_vars, bumpv, window_begin, genv>>

MkdirAnl == At("mkdir_anl") /\ Simple("mkdir_anl", TRUE)  \* lines 104-105
MkdirDiags == At("mkdir_diags") /\ Simple("mkdir_diags", TRUE)  \* lines 108-109
MkdirData == At("mkdir_data") /\ Simple("mkdir_data", TRUE)  \* line 112
R2d2Setup == At("r2d2_setup") /\ Simple("r2d2_setup", TRUE)  \* line 121
GetEnvConfig == At("get_env_config") /\ Simple("get_env_config", TRUE)  \* lines 124-128
ParseConfig == At("parse_config") /\ Simple("parse_config", TRUE)  \* lines 129-132
StageObs == At("stage_obs") /\ Simple("stage_obs", TRUE)  \* line 135
StageBackground == At("stage_background") /\ Simple("stage_background", TRUE)  \* lines 141-142
StageSocaFix == At("stage_soca_fix") /\ Simple("stage_soca_fix", TRUE)  \* line 147
SymlinkGridgen == At("symlink_gridgen") /\ Simple("symlink_gridgen", TRUE)  \* lines 157-163
GenYAMLBerr == At("genYAML_berr") /\ Simple("genYAML_berr", TRUE)  \* lines 166-173
SymlinkCorscales == At("symlink_corscales") /\ Simple("symlink_corscales", TRUE)  \* lines 176-182
GenYAMLVar == At("genYAML_var") /\ Simple("genYAML_var", TRUE)  \* lines 220-228
SymlinkRst == At("symlink_rst") /\ Simple("symlink_rst", TRUE)  \* lines 242-244
CopyNml == At("copy_nml") /\ Simple("copy_nml", TRUE)  \* lines 251-254
NmlRead == At("nml_read") /\ Simple("nml_read", TRUE)  \* lines 255-261
NmlRemove == At("nml_remove") /\ Simple("nml_remove", TRUE)  \* line 262
NmlWrite == At("nml_write") /\ Simple("nml_write", TRUE)  \* line 263

\* line 154
SocaVars ==
  /\ At("soca_vars")
  /\ \/ /\ CanRaise("soca_vars", FALSE)
        /\ Raise("soca_vars")
        /\ UNCHANGED soca_vars
     \/ /\ CanPass("soca_vars")
        /\ Complete("soca_vars")
        /\ soca_vars' = SplitComma(envval.SOCA_VARS)
  /\ UNCHANGED <<inputs, bumpv, window_begin, genv>>

\* lines 186-192
SetVars ==
  /\ At("set_vars")
  /\ Complete("set_vars")
  /\ vars' = BumpVars(soca_vars)
  /\ bi' = 1 /\ bsub' = "mkdir"
  /\ UNCHANGED <<inputs, soca_vars, bumpDirs, bumpOut, window_begin, genv>>

\* lines 193-205: classify vars[bi] and make its data directory
BumpMkdir ==
  /\ At("bump") /\ bsub = "mkdir" /\ bi \in DOMAIN vars
  /\ \/ /\ Raise("bump")
        /\ UNCHANGED <<bsub, bumpDirs>>
     \/ /\ bumpDirs' = Append(bumpDirs, BumpDir(vars[bi]))
        /\ bsub' = "genYAML"
        /\ UNCHANGED ctl
  /\ UNCHANGED <<inputs, soca_vars, vars, bi, bumpOut, window_begin, genv>>

\* lines 206-208: write the bump-C document of vars[bi]
BumpGenYAML ==
  /\ At("bump") /\ bsub = "genYAML" /\ bi \in DOMAIN vars
  /\ \/ /\ Raise("bump")
        /\ UNCHANGED <<bi, bsub, bumpOut>>
     \/ /\ bumpOut' = Append(bumpOut, [yaml |-> BumpCYaml(vars[bi]),
                                       datadir |-> BumpDir(vars[bi]),
                                       cvar |-> vars[bi]])
        /\ bi' = bi + 1
        /\ bsub' = "mkdir"
        /\ IF bi = Len(vars) THEN Complete("bump") ELSE UNCHANGED ctl
  /\ UNCHANGED <<inputs, soca_vars, vars, bumpDirs, window_begin, genv>>

\* lines 217-218
Window ==
  /\ At("window")
  /\ \/ /\ CanRaise("window", FALSE)
        /\ Raise("window")
        /\ UNCHANGED window_begin
     \/ /\ CanPass("window")
        /\ Complete("window")
        /\ window_begin' = Strptime(envval.CDATE) - HalfAssimFreq(envval.assim_freq)
  /\ UNCHANGED <<inputs, soca_vars, bumpv, genv>>


(* --------------------------- gen_bkg_list ----------------------------- *)

InGen(at) == At("gen_bkg_list") /\ gpc = at

\* the command the inner loops are at
CurCmd == IF phase = "ch" THEN ch_jobs[ci] ELSE d_jobs[ci]

\* where the loops of lines 55-56 go once the pair (v, a) is finished
AfterPair(v, a) ==
  IF a < Len(DiagAtts) THEN [vi |-> v, ai |-> a + 1, gpc |-> "build"]
  ELSE IF v < Len(DiagVars) THEN [vi |-> v + 1, ai |-> 1, gpc |-> "build"]
  ELSE [vi |-> v, ai |-> a, gpc |-> "manifest"]

\* lines 51-52, entered from line 219 with bkg_path = COMIN_GES
GenGlob ==
  /\ InGen("entry")
  /\ \/ /\ CanRaise("gen_bkg_list", FALSE)
        /\ Raise("gen_bkg_list")
        /\ UNCHANGED <<gpc, files>>
     \/ /\ CanPass("gen_bkg_list")
        /\ \E order \in Orderings(GlobSet(BkgDir, dirEntries)) :
             files' = SortFiles(order)
        /\ gpc' = "build"
        /\ UNCHANGED ctl
  /\ UNCHANGED <<inputs, soca_vars, bumpv, window_begin, vi, ai, ch_jobs,
                 d_jobs, phase, ci, procv, manifest>>

\* lines 57-61: build both job lists of the pair (DiagVars[vi], DiagAtts[ai])
GenBuild ==
  /\ InGen("build")
  /\ ch_jobs' = ChJobs(DiagAtts[ai], DiagVars[vi], files)
  /\ d_jobs' = DJobs(DiagAtts[ai], DiagVars[vi], files)
  /\ IF files = <<>>
     THEN LET nx == AfterPair(vi, ai)
          IN vi' = nx.vi /\ ai' = nx.ai /\ gpc' = nx.gpc /\ UNCHANGED <<phase, ci>>
     ELSE phase' = "ch" /\ ci' = 1 /\ gpc' = "log" /\ UNCHANGED <<vi, ai>>
  /\ UNCHANGED <<inputs, ctl, soca_vars, bumpv, window_begin, files, procv,
                 manifest>>

\* line 64 / line 70
GenLog ==
  /\ InGen("log")
  /\ logged' = Incr(logged, CurCmd)
  /\ gpc' = "system"
  /\ UNCHANGED <<inputs, ctl, soca_vars, bumpv, window_begin, loopv, result,
                 anyNonZero, started, manifest>>

\* line 65 / line 71: the exit status os.system returns is dropped
GenSystem ==
  /\ InGen("system")
  /\ \E rc \in ExitCodes :
       /\ started' = SystemStarts(started, CurCmd)
       /\ anyNonZero' = (anyNonZero \/ rc # 0)
  /\ gpc' = "run"
  /\ UNCHANGED <<inputs, ctl, soca_vars, bumpv, window_begin, loopv, result,
                 logged, manifest>>

\* lines 66-67 / lines 72-73, and the step of the enclosing loops
GenRun ==
  /\ InGen("run")
  /\ \E rc \in ExitCodes :
       /\ started' = RunStarts(started, CurCmd)
       /\ result' = rc
       /\ anyNonZero' = (anyNonZero \/ rc # 0)
       /\ IF RunRaises(rc)
          THEN /\ Raise("gen_bkg_list")
               /\ UNCHANGED <<gpc, vi, ai, phase, ci>>
          ELSE /\ UNCHANGED ctl
               /\ IF ci < Len(files)
                  THEN ci' = ci + 1 /\ gpc' = "log" /\ UNCHANGED <<vi, ai, phase>>
                  ELSE IF phase = "ch"
                  THEN phase' = "d" /\ ci' = 1 /\ gpc' = "log" /\ UNCHANGED <<vi, ai>>
                  ELSE LET nx == AfterPair(vi, ai)
                       IN /\ vi' = nx.vi /\ ai' = nx.ai /\ gpc' = nx.gpc
                          /\ UNCHANGED <<phase, ci>>
  /\ UNCHANGED <<inputs, soca_vars, bumpv, window_begin, files, ch_jobs,
                 d_jobs, logged, manifest>>

\* lines 76-91: build the list, write it under 'states', return to line 220
GenManifest ==
  /\ InGen("manifest")
  /\ manifest' = Append(manifest,
       [states |-> BkgList(files, FirstBkgDate(window_begin), BkgDir)])
  /\ gpc' = "returned"
  /\ Complete("gen_bkg_list")
  /\ UNCHANGED <<inputs, soca_vars, bumpv, window_begin, loopv, procv>>

(* -------------------------- specifications ---------------------------- *)

Next ==
  \/ MkdirAnl \/ MkdirDiags \/ MkdirData
  \/ R2d2Setup \/ GetEnvConfig \/ ParseConfig \/ StageObs
  \/ StageBackground \/ StageSocaFix
  \/ SocaVars \/ SymlinkGridgen \/ GenYAMLBerr \/ SymlinkCorscales
  \/ SetVars \/ BumpMkdir \/ BumpGenYAML
  \/ Window
  \/ GenGlob \/ GenBuild \/ GenLog \/ GenSystem \/ GenRun \/ GenManifest
  \/ GenYAMLVar \/ SymlinkRst \/ CopyNml \/ NmlRead \/ NmlRemove \/ NmlWrite

\* the whole script, from line 97
Spec == Init /\ [][Next]_vars_all

\* names the loop body of lines 193-208 is applied to
BumpNames == Range(vars2d) \cup Range(vars3d) \cup {"sst"}

\* the loop of lines 193-208 entered with any list of names
InitBump ==
  /\ unset = {}
  /\ envval \in [CDATE : {<<1, 1>>}, assim_freq : {6}, SOCA_VARS : {<<>>}]
  /\ dirEntries = {}
  /\ pc = PosOf("bump") /\ status = "running" /\ failedAt = ""
  /\ trace = SubSeq(Program, 1, PosOf("bump") - 1)
  /\ soca_vars = <<"">>
  /\ vars \in UNION {[1..n -> BumpNames] : n \in 1..MaxVars}
  /\ bi = 1 /\ bsub = "mkdir"
  /\ bumpDirs = <<>> /\ bumpOut = <<>>
  /\ window_begin = 0
  /\ gpc = "entry" /\ files = <<>> /\ vi = 1 /\ ai = 1
  /\ ch_jobs = <<>> /\ d_jobs = <<>> /\ phase = "ch" /\ ci = 1
  /\ result = 0 /\ anyNonZero = FALSE /\ logged = NoFunc /\ started = NoFunc
  /\ manifest = <<>>

NextBump == BumpMkdir \/ BumpGenYAML

SpecBump == InitBump /\ [][NextBump]_vars_all


(* ------------------------------ claims -------------------------------- *)

\* the paths gen_bkg_list matches in the run's directory
Matched == GlobSet(BkgDir, dirEntries)

\* the k-th matched path in lexicographic order
Ranked(k) == CHOOSE f \in Matched : Cardinality({g \in Matched : StrLess(g, f)}) = k - 1

\* minutes since day 0 that a formatted date stands for
DateMinutes(d) == d[1] * 1440 + d[2] * 60 + d[3]

WellFormedDate(d) == d[2] \in 0..23 /\ d[3] \in 0..59 /\ d[4] = 0

\* the (variable, attribute) pairs, as the claims list them
RepairVars == {"Temp", "Salt", "ave_ssh", "h", "MLD"}
RepairAtts == {"_FillValue", "missing_value"}

\* every repair command of every matched file was started n times
AllRepairStarted(n) ==
  \A v \in RepairVars, a \in RepairAtts, f \in Matched :
    /\ Count(started, ChCmd(a, v, f)) = n
    /\ Count(started, DCmd(a, v, f)) = n

\* C1: the manifest under 'states' has one record per matched file; the k-th
\* record belongs to the k-th matched path in lexicographic order, carries
\* the date window_begin + k hours and read_from_file = 1; with no matched
\* file the manifest is written with an empty list, and gen_bkg_list raises
\* nothing once its directory argument is set.
C1_ManifestDates ==
  /\ failedAt = "gen_bkg_list" => "COMIN_GES" \in unset
  /\ gpc = "returned" => Len(manifest) = 1
  /\ manifest # <<>> =>
       LET st == manifest[1].states
           N == Cardinality(Matched)
       IN /\ Len(st) = N
          /\ \A k \in 1..N :
               /\ files[k] = Ranked(k)
               /\ st[k].ocn_filename = OcnFilename(Ranked(k))
               /\ st[k].basename = BkgDir \o <<"/">>
               /\ WellFormedDate(st[k].date)
               /\ DateMinutes(st[k].date) = window_begin + 60 * k
               /\ st[k].read_from_file = 1

\* two files, the second one dated on the day after the first
C1_Witness ==
  /\ manifest # <<>>
  /\ Len(manifest[1].states) = 2
  /\ manifest[1].states[1].date = <<0, 23, 0, 0>>
  /\ manifest[1].states[2].date = <<1, 0, 0, 0>>

\* n = root + ext, where ext is empty or starts at the last dot of n and
\* root is not made of dots only
RootOf(n, r) ==
  \/ /\ r = Len(n)
     /\ \A j \in 1..Len(n) : n[j] = "." => \A i \in 1..(j - 1) : n[i] = "."
  \/ /\ r < Len(n)
     /\ n[r + 1] = "."
     /\ \A j \in (r + 2)..Len(n) : n[j] # "."
     /\ \E i \in 1..r : n[i] # "."

\* C2: the ocn_filename of every manifest record is the matched file's name
\* without its directory, its extension replaced by ".nc".
C2_OcnFilename ==
  manifest # <<>> =>
    \A k \in DOMAIN manifest[1].states :
      \E n \in dirEntries :
        /\ files[k] = BkgDir \o <<"/">> \o n
        /\ \E r \in 0..Len(n) :
             /\ RootOf(n, r)
             /\ manifest[1].states[k].ocn_filename = SubSeq(n, 1, r) \o <<".", "n", "c">>

\* a matched file with the extension .gb is listed under the extension .nc
C2_Witness ==
  /\ manifest # <<>>
  /\ \E k \in DOMAIN manifest[1].states :
       /\ files[k] = BkgDir \o <<"/">> \o NameGb5
       /\ manifest[1].states[k].ocn_filename =
            <<"g", "d", "a", "s", ".", "t", "0", ".", "o", "c", "n", "f", "0",
              "0", "5", ".", "n", "c">>

\* the 2-D names as the claim lists them
Claimed2d == {"ssh", "cicen", "hicen", "hsnon", "swh", "sw", "lw", "lw_rad",
              "lhf", "shf", "us"}

\* C3: every name the bump-C loop has processed carries the tag 2d in its
\* document name and its data directory when it is in the 2-D list, and the
\* tag 3d otherwise.
C3_DimTag ==
  /\ Len(bumpOut) <= Len(bumpDirs)
  /\ \A i \in DOMAIN bumpOut :
       LET v == vars[i]
           tag == IF v \in Claimed2d THEN "2d" ELSE "3d"
       IN /\ bumpOut[i].yaml = "soca_bump" \o tag \o "_C_" \o v \o ".yaml"
          /\ bumpOut[i].datadir = "bump" \o tag \o "_" \o v
          /\ bumpDirs[i] = "bump" \o tag \o "_" \o v

\* a name of neither list got 3d, next to a 2-D name that got 2d
C3_Witness ==
  /\ Len(bumpOut) = 2
  /\ bumpOut[1].yaml = "soca_bump3d_C_sst.yaml"
  /\ bumpOut[1].datadir = "bump3d_sst"
  /\ bumpOut[2].yaml = "soca_bump2d_C_lw_rad.yaml"

C5_ExitIgnored ==
  /\ anyNonZero /\ status = "failed" => failedAt # "gen_bkg_list"
  /\ anyNonZero /\ pc > PosOf("gen_bkg_list") =>
       /\ AllRepairStarted(2)
       /\ manifest =
            <<[states |->
                 [k \in 1..Cardinality(Matched) |->
                    [date |-> Strftime(window_begin + 60 * k),
                     basename |-> BkgDir \o <<"/">>,
                     ocn_filename |-> OcnFilename(Ranked(k)),
                     read_from_file |-> 1]]]>>

\* gen_bkg_list returned after some command of two files exited non-zero
C5_Witness ==
  /\ anyNonZero
  /\ gpc = "returned"
  /\ Len(files) = 2
  /\ Len(manifest) = 1

\* C6 as claimed: one process per (variable, attribute, file)
C6_OnePerTriple ==
  gpc = "returned" =>
    \A v \in RepairVars, a \in RepairAtts, f \in Matched :
      Count(started, ChCmd(a, v, f)) + Count(started, DCmd(a, v, f)) = 1

\* C6: per (variable, attribute, file) the overwrite command and the delete
\* command are each started twice, four starts in all.
C6_FourPerTriple ==
  /\ \A c \in DOMAIN started : started[c] <= 2
  /\ gpc \in {"manifest", "returned"} =>
       \A v \in RepairVars, a \in RepairAtts, f \in Matched :
         /\ Count(started, ChCmd(a, v, f)) = 2
         /\ Count(started, DCmd(a, v, f)) = 2
         /\ Count(started, ChCmd(a, v, f)) + Count(started, DCmd(a, v, f)) = 4

\* the repair ended on a directory with a matched file
C6_Witness ==
  /\ gpc = "returned"
  /\ Matched # {}
  /\ Count(started, DCmd("missing_value", "MLD", Ranked(1))) = 2

\* C7: when a call has raised, the statements completed are exactly those
\* before it in program order, each once, with their effects in place.
C7_StopsInPlace ==
  status = "failed" =>
    /\ pc \in DOMAIN Program
    /\ failedAt = Program[pc]
    /\ trace = SubSeq(Program, 1, pc - 1)
    /\ pc > PosOf("gen_bkg_list") => Len(manifest) = 1 /\ AllRepairStarted(2)
    /\ pc > PosOf("bump") => Len(bumpOut) = 3 /\ Len(bumpDirs) = 3
    /\ failedAt = "bump" =>
         /\ Len(bumpOut) = bi - 1
         /\ Len(bumpDirs) = IF bsub = "mkdir" THEN bi - 1 ELSE bi

\* the templating call for var.yaml raised with every variable set
C7_Witness ==
  /\ status = "failed"
  /\ failedAt = "genYAML_var"
  /\ unset = {}
  /\ Len(manifest) = 1
  /\ Len(trace) = 17

\* C8: per (variable, attribute) every overwrite command has run before any
\* delete command, a command is logged before it runs, and no repair
\* command runs once the manifest is written.
C8_TwoPasses ==
  /\ \A v \in RepairVars, a \in RepairAtts, f \in Matched, g \in Matched :
       Count(started, DCmd(a, v, f)) > 0 => Count(started, ChCmd(a, v, g)) = 2
  /\ \A c \in DOMAIN started : Count(logged, c) = 1
  /\ \A c \in DOMAIN logged : c.file \in Matched
  /\ manifest # <<>> =>
       /\ AllRepairStarted(2)
       /\ \A c \in DOMAIN started : started[c] = 2

\* in the delete pass of the third variable, with two files
C8_Witness ==
  /\ gpc = "run"
  /\ phase = "d"
  /\ vi = 3
  /\ ci = 2
  /\ Len(files) = 2
  /\ manifest = <<>>

\* C9 as claimed: no analysis configuration document before the manifest
C9_ManifestBeforeConfig ==
  /\ started # NoFunc => "stage_background" \in Range(trace)
  /\ \A d \in {"genYAML_berr", "bump", "genYAML_var"} :
       d \in Range(trace) => manifest # <<>>

\* C9: the statements complete in this order; the B-error and bump-C
\* documents come before the repair and the manifest, var.yaml and the
\* namelist after them; no repair command before background staging.
C9_ProgramOrder ==
  /\ \E n \in 0..23 :
       trace = SubSeq(
         <<"mkdir_anl", "mkdir_diags", "mkdir_data", "r2d2_setup",
           "get_env_config", "parse_config", "stage_obs", "stage_background",
           "stage_soca_fix", "soca_vars", "symlink_gridgen", "genYAML_berr",
           "symlink_corscales", "set_vars", "bump", "window", "gen_bkg_list",
           "genYAML_var", "symlink_rst", "copy_nml", "nml_read", "nml_remove",
           "nml_write">>, 1, n)
  /\ started # NoFunc \/ logged # NoFunc =>
       {"stage_background", "genYAML_berr", "bump"} \subseteq Range(trace)
  /\ bumpOut # <<>> => manifest = <<>> \/ Len(bumpOut) = 3
  /\ manifest # <<>> <=> "gen_bkg_list" \in Range(trace)
  /\ manifest # <<>> => AllRepairStarted(2)

\* repair is under way after the bump-C documents, before any manifest
C9_Witness ==
  /\ gpc = "system"
  /\ Len(files) = 2
  /\ "genYAML_berr" \in Range(trace)
  /\ Len(bumpOut) = 3
  /\ manifest = <<>>

\* C10: whatever SOCA_VARS holds, the bump-C loop writes these three
\* documents, in this order.
C10_SocaVarsIgnored ==
  LET three == <<[yaml |-> "soca_bump2d_C_ssh.yaml", datadir |-> "bump2d_ssh"],
                 [yaml |-> "soca_bump3d_C_tocn.yaml", datadir |-> "bump3d_tocn"],
                 [yaml |-> "soca_bump3d_C_socn.yaml", datadir |-> "bump3d_socn"]>>
      got == [i \in DOMAIN bumpOut |->
                [yaml |-> bumpOut[i].yaml, datadir |-> bumpOut[i].datadir]]
  IN /\ got = SubSeq(three, 1, Len(bumpOut))
     /\ "bump" \in Range(trace) => got = three

\* the loop has finished in a run whose SOCA_VARS names other variables
C10_Witness ==
  /\ "bump" \in Range(trace)
  /\ soca_vars = <<"sst", "socn">>
  /\ Len(bumpOut) = 3

=============================================================================
